---- MODULE Spec2Model ----
(***************************************************************************)
(* Model of module/bdev/iscsi/bdev_iscsi.c: the iSCSI block-device adapter *)
(* of SPDK.                                                                *)
(*                                                                         *)
(* SpecConn models device creation: create_iscsi_disk, the queue of        *)
(* pending connection requests, the connection poller and the discovery    *)
(* callbacks it drives (connect, provisioning inquiry, block-limits        *)
(* inquiry, capacity query, device registration) and bdev_iscsi_finish.    *)
(*                                                                         *)
(* SpecLun models one registered device: the channel callbacks that hand   *)
(* the session to an owner thread, the two pollers that pump the session,  *)
(* and the dispatch of I/O requests to the owner thread.                   *)
(*                                                                         *)
(* libiscsi and the bdev framework are outside the file.  What they        *)
(* report to the file (a completion status, sense data, an allocation      *)
(* that fails, a return code) is an input chosen with \E from small sets.  *)
(***************************************************************************)
EXTENDS Integers, Sequences, FiniteSets, TLC

\* ------------------------------------------------------------------------
\* Bounds of the model
\* ------------------------------------------------------------------------
\* number of create_iscsi_disk calls in one behaviour
MaxCalls == 2
\* number of SPDK threads that use the device
NumThreads == 2
\* number of I/O requests in flight at a time
MaxIo == 1
\* resubmissions of one request that are counted
MaxRetries == 2

\* ------------------------------------------------------------------------
\* Program constants
\* ------------------------------------------------------------------------
SPDK_SCSI_STATUS_GOOD == 0
SPDK_SCSI_STATUS_CHECK_CONDITION == 2
\* libiscsi's SCSI_STATUS_ERROR (0x0f000001): a transport-level failure
SCSI_STATUS_ERROR == 251658241
SPDK_SCSI_SENSE_NO_SENSE == 0
SPDK_SCSI_SENSE_UNIT_ATTENTION == 6
\* 0x2a09: CAPACITY DATA HAS CHANGED
ASCQ_CAPACITY_DATA_HAS_CHANGED == 10761
\* 0x2900: POWER ON, RESET, OR BUS DEVICE RESET OCCURRED
ASCQ_POWER_ON_RESET == 10496
EINVAL == 22
ENOMEM == 12
EEXIST == 17
BDEV_ISCSI_DEFAULT_MAX_UNMAP_LBA_COUNT == 32768
BDEV_ISCSI_MAX_UNMAP_BLOCK_DESCS_COUNT == 1
\* req->status while the discovery sequence is running
STATUS_IN_PROGRESS == -1

\* a null pointer to a struct (a request, a device, a thread)
NULL == 0

\* ------------------------------------------------------------------------
\* C strings: a pointer is null or points to a sequence of characters
\* ------------------------------------------------------------------------
NullStr == [null |-> TRUE, s |-> <<>>]

Str(s) == [null |-> FALSE, s |-> s]

strlen(p) == Len(p.s)

\* the device names, URLs and initiator names create_iscsi_disk is called with
NameArgs == {NullStr, Str(<<>>), Str(<<"d">>)}

UrlLun1 == Str(<<"iscsi://", "portal/", "iqn.target/", "1">>)

UrlLun1User == Str(<<"iscsi://", "user%pw@", "portal/", "iqn.target/", "1">>)

UrlArgs == {NullStr, Str(<<>>), Str(<<"http://", "portal/">>), UrlLun1, UrlLun1User}

IqnArgs == {NullStr, Str(<<>>), Str(<<"iqn.init">>)}

\* the decimal LUN field of a URL
atoi(d) == CASE d = "0" -> 0 [] d = "1" -> 1 [] OTHER -> 0

\* iscsi_parse_full_url: scheme, optional credentials, portal, target, LUN;
\* NULL (here a record with ok = FALSE) for anything else
iscsi_parse_full_url(url) ==
    LET s == url.s IN
    IF Len(s) \in {4, 5} /\ s[1] = "iscsi://"
    THEN [ok |-> TRUE,
          user |-> IF Len(s) = 5 THEN <<s[2]>> ELSE <<>>,
          lun |-> atoi(s[Len(s)])]
    ELSE [ok |-> FALSE, user |-> <<>>, lun |-> 0]

\* ------------------------------------------------------------------------
\* State
\* ------------------------------------------------------------------------
VARIABLES
    g_iscsi_conn_req,   \* TAILQ of pending connection requests (call numbers)
    g_conn_poller,      \* TRUE while the connection poller is registered
    req,                \* per create_iscsi_disk call: struct bdev_iscsi_conn_req
    cb,                 \* per call: invocations of req->create_cb
    luns,               \* device records created by create_iscsi_lun
    reported,           \* per call: what the target answered during discovery
    freed,              \* per call: how many times the request was freed
    ncalls,             \* create_iscsi_disk calls made so far
    finished,           \* bdev_iscsi_finish has run
    lun,                \* the device record of SpecLun: struct bdev_iscsi_lun
    pc,                 \* per thread: the function it is in, "idle" between handlers
    hasCh,              \* per thread: the thread holds an I/O channel of the device
    msgs,               \* per thread: the messages sent to it, oldest first
    ios,                \* per I/O request: struct bdev_iscsi_io and the request
    tasks               \* the commands outstanding on the device's session

connVars == <<g_iscsi_conn_req, g_conn_poller, req, cb, luns, reported, freed, ncalls, finished>>

lunVars == <<lun, pc, hasCh, msgs, ios, tasks>>

vars == <<g_iscsi_conn_req, g_conn_poller, req, cb, luns, reported, freed, ncalls, finished,
          lun, pc, hasCh, msgs, ios, tasks>>

Threads == 1..NumThreads

IoIds == 1..MaxIo

Calls == 1..MaxCalls

\* the thread create_iscsi_disk is called on; its pollers run there
AppThread == 1

\* A call that has not been made.  rc: the call's return code.
\* mem: "none" (no request allocated), "live", "freed".
\* context: the request's iscsi_context, "none", "live" or "destroyed".
\* strings: the strdup'ed name, url and initiator name: "none", "live", "freed"
\* (the url and the initiator name are only copied and freed, never read
\* again by this file except for the JSON dump; the model keeps the name).
\* tasks: the operations outstanding on the session, oldest first
\* ("connect", "lbp", "bl", "cap").
NoReq ==
    [called |-> FALSE, rc |-> 0, mem |-> "none", context |-> "none",
     strings |-> "none", bdev_name |-> NullStr, initiator_iqn |-> NullStr,
     has_cb |-> FALSE,
     unmap_supported |-> FALSE, max_unmap |-> 0, lun |-> 0,
     status |-> SPDK_SCSI_STATUS_GOOD, tasks |-> <<>>]

NoCb == [count |-> 0, bdev |-> NULL, status |-> 0]

NoReport ==
    [good |-> TRUE, lbpu |-> FALSE, max_unmap |-> 0, returned_lba |-> 0, block_length |-> 0]

\* some step of the discovery did not succeed
NotGood == [NoReport EXCEPT !.good = FALSE]

ConnInit ==
    /\ g_iscsi_conn_req = <<>>
    /\ g_conn_poller = FALSE
    /\ req = [r \in Calls |-> NoReq]
    /\ cb = [r \in Calls |-> NoCb]
    /\ luns = <<>>
    /\ reported = [r \in Calls |-> NoReport]
    /\ freed = [r \in Calls |-> 0]
    /\ ncalls = 0
    /\ finished = FALSE

\* a behaviour of SpecConn registers devices and does not use them
\* no thread has been stopped by a signal
ProcessAlive == \A t \in Threads : pc[t] \notin {"SIGFPE", "SIGSEGV", "SIGABRT"}

LunIdle ==
    /\ lun = [ch_count |-> 0]
    /\ pc = [t \in Threads |-> "idle"]
    /\ hasCh = [t \in Threads |-> FALSE]
    /\ msgs = [t \in Threads |-> <<>>]
    /\ ios = <<>>
    /\ tasks = <<>>

\* ------------------------------------------------------------------------
\* create_iscsi_disk
\* ------------------------------------------------------------------------
\* The step of one create_iscsi_disk call that fails, if any: "calloc" (the
\* request), "strdup" (a strdup returns NULL), "ctx" (iscsi_create_context
\* returns NULL), "session" (a session setter returns -1), "connect"
\* (iscsi_full_connect_async returns -1), "userpwd"
\* (iscsi_set_initiator_username_pwd returns -1).  The first failure decides
\* the call, so one per call is enough.
CreateFaults == {"none", "calloc", "strdup", "ctx", "session", "connect", "userpwd"}

\* free(req): the memory of the request is gone; what the model keeps of a
\* freed request is its return code and what became of its session and strings
free(q, r) ==
    [q EXCEPT ![r] = [NoReq EXCEPT !.called = TRUE, !.rc = q[r].rc, !.mem = "freed",
                                   !.context = q[r].context,
                                   !.strings = q[r].strings,
                                   !.status = q[r].status]]

\* the err: label without iscsi_destroy_context
create_iscsi_disk_err_leak(q, r, rc) ==
    free([q EXCEPT ![r].rc = rc,
                   ![r].status = SPDK_SCSI_STATUS_GOOD,
                   ![r].strings = "freed"], r)

\* the err: label of create_iscsi_disk for a request r that was allocated
create_iscsi_disk_err(q, r, rc) ==
    free([q EXCEPT ![r].rc = rc,
                   ![r].status = SPDK_SCSI_STATUS_GOOD,
                   ![r].context = IF @ = "live" THEN "destroyed" ELSE @,
                   ![r].strings = "freed"], r)

\* create_iscsi_disk as call number r; the result is the new req, queue, poller
create_iscsi_disk(r, bdev_name, url, initiator_iqn, cb_fn, f) ==
    LET cur == [req |-> [req EXCEPT ![r].called = TRUE],
                q |-> g_iscsi_conn_req, poller |-> g_conn_poller]
        parsed == iscsi_parse_full_url(url)
        alloc == [cur.req EXCEPT
                    ![r].mem = "live",
                    ![r].status = SPDK_SCSI_STATUS_GOOD,
                    ![r].strings = "live",
                    ![r].bdev_name = bdev_name,
                    ![r].initiator_iqn = initiator_iqn,
                    ![r].context = IF f = "ctx" THEN "none" ELSE "live"]
        withcb == [alloc EXCEPT ![r].has_cb = TRUE]
        withlun == [withcb EXCEPT ![r].lun = parsed.lun]
        rc1 == IF f = "session" THEN -1 ELSE 0
        rc2 == IF rc1 # 0 THEN rc1 ELSE IF f = "connect" THEN -1 ELSE 0
        rc3 == IF rc2 = 0 /\ parsed.user # <<>>
               THEN (IF f = "userpwd" THEN -1 ELSE 0)
               ELSE rc2
    IN
    IF bdev_name.null \/ url.null \/ initiator_iqn.null
       \/ strlen(initiator_iqn) = 0 \/ ~cb_fn
    THEN [cur EXCEPT !.req[r].rc = -EINVAL]
    ELSE IF f = "calloc"
    THEN [cur EXCEPT !.req[r].rc = -ENOMEM]
    ELSE IF f \in {"strdup", "ctx"}
    THEN [cur EXCEPT !.req = create_iscsi_disk_err(alloc, r, -ENOMEM)]
    ELSE IF ~parsed.ok
    THEN [cur EXCEPT !.req = create_iscsi_disk_err(withcb, r, -EINVAL)]
    ELSE IF rc3 < 0
    THEN [cur EXCEPT !.req = create_iscsi_disk_err(withlun, r, rc3)]
    ELSE [req |-> [withlun EXCEPT ![r].status = STATUS_IN_PROGRESS,
                                  ![r].tasks = <<"connect">>,
                                  ![r].rc = 0],
          q |-> Append(g_iscsi_conn_req, r),
          poller |-> TRUE]

CreateDisk ==
    /\ ProcessAlive
    /\ ~finished
    /\ ncalls < MaxCalls
    /\ \E bdev_name \in NameArgs, url \in UrlArgs, initiator_iqn \in IqnArgs,
          cb_fn \in BOOLEAN, f \in CreateFaults :
         LET res == create_iscsi_disk(ncalls + 1, bdev_name, url, initiator_iqn, cb_fn, f) IN
         /\ req' = res.req
         /\ g_iscsi_conn_req' = res.q
         /\ g_conn_poller' = res.poller
    /\ ncalls' = ncalls + 1
    /\ UNCHANGED <<cb, luns, reported, freed, finished>>
    /\ UNCHANGED lunVars

\* ------------------------------------------------------------------------
\* What a connection-poller visit of one request finds
\* ------------------------------------------------------------------------
\* A completion iscsi_service delivers.  status, sk, ascq: its status and
\* sense.  dataOk: scsi_datain_unmarshall returns the payload.  lbpu,
\* max_unmap, returned_lba, block_length, lbppbe: the payload.  issue1,
\* issue2: the first and second task the callback tries to issue is
\* allocated.  lunAlloc, regRc: calloc of the device record and the return
\* code of spdk_bdev_register.  dfree: what a second scsi_free_scsi_task of
\* the task does: "abort" (the allocator detects it and kills the process) or
\* "silent" (it goes unnoticed).
Ready ==
    [status |-> SPDK_SCSI_STATUS_GOOD,
     sk |-> SPDK_SCSI_SENSE_NO_SENSE, ascq |-> 0, dataOk |-> TRUE,
     lbpu |-> FALSE, max_unmap |-> 0, returned_lba |-> 0, block_length |-> 0,
     lbppbe |-> 0, issue1 |-> TRUE, issue2 |-> TRUE, lunAlloc |-> TRUE, regRc |-> 0,
     dfree |-> "abort"]

\* the non-good completions: a transport error, a unit attention that is not
\* the capacity change, and the capacity-change unit attention
TransportError == [Ready EXCEPT !.status = SCSI_STATUS_ERROR]

OtherAttention ==
    [Ready EXCEPT !.status = SPDK_SCSI_STATUS_CHECK_CONDITION,
                  !.sk = SPDK_SCSI_SENSE_UNIT_ATTENTION,
                  !.ascq = ASCQ_POWER_ON_RESET]

SizeChange ==
    [Ready EXCEPT !.status = SPDK_SCSI_STATUS_CHECK_CONDITION,
                  !.sk = SPDK_SCSI_SENSE_UNIT_ATTENTION,
                  !.ascq = ASCQ_CAPACITY_DATA_HAS_CHANGED]

\* the values a block-limits page reports as MAXIMUM UNMAP LBA COUNT
MaxUnmapValues == {0, 16384}

\* the geometries a capacity query reports: last block, block size, exponent
Geometries ==
    {[returned_lba |-> 999999, block_length |-> 512, lbppbe |-> 0],
     [returned_lba |-> 7, block_length |-> 4096, lbppbe |-> 3]}

ConnectEvents ==
    {TransportError} \cup {[Ready EXCEPT !.issue1 = i] : i \in BOOLEAN}

\* an inquiry that failed: the capacity query is issued, or cannot be
FailedInquiry ==
    {TransportError, [TransportError EXCEPT !.issue1 = FALSE],
     [SizeChange EXCEPT !.issue1 = FALSE]}

LbpEvents ==
    FailedInquiry
          \cup {[Ready EXCEPT !.dataOk = d, !.issue1 = i] : d \in BOOLEAN, i \in BOOLEAN}
          \cup {[Ready EXCEPT !.lbpu = TRUE],
                [Ready EXCEPT !.lbpu = TRUE, !.issue1 = FALSE],
                [Ready EXCEPT !.lbpu = TRUE, !.issue1 = FALSE, !.issue2 = FALSE]}

BlEvents ==
    FailedInquiry
          \cup {[Ready EXCEPT !.dataOk = FALSE, !.issue1 = i] : i \in BOOLEAN}
          \cup {[Ready EXCEPT !.max_unmap = m] : m \in MaxUnmapValues}
          \cup {[Ready EXCEPT !.max_unmap = 16384, !.issue1 = FALSE]}

CapEvents ==
    {TransportError, OtherAttention, SizeChange, [SizeChange EXCEPT !.issue1 = FALSE],
     [SizeChange EXCEPT !.issue1 = FALSE, !.dfree = "silent"]}
          \cup {[Ready EXCEPT !.dataOk = FALSE]}
          \cup {[Ready EXCEPT !.returned_lba = g.returned_lba,
                              !.block_length = g.block_length,
                              !.lbppbe = g.lbppbe] : g \in Geometries}
          \cup {[Ready EXCEPT !.returned_lba = 7, !.block_length = 4096, !.lbppbe = 3,
                              !.lunAlloc = FALSE],
                [Ready EXCEPT !.returned_lba = 7, !.block_length = 4096, !.lbppbe = 3,
                              !.regRc = -EEXIST]}

EventsFor(task) ==
    CASE task = "connect" -> ConnectEvents
      [] task = "lbp" -> LbpEvents
      [] task = "bl" -> BlEvents
      [] task = "cap" -> CapEvents
      [] OTHER -> {}

\* ------------------------------------------------------------------------
\* The discovery sequence.  W is the part of the state the callbacks change:
\* W.req, W.q (g_iscsi_conn_req), W.cb, W.luns, W.reported.
\* ------------------------------------------------------------------------
SeqRemove(q, r) == SelectSeq(q, LAMBDA x : x # r)

\* The scsi_task handed to the callback that is running (W.task, M.task):
\* frees: how often the callback has called scsi_free_scsi_task on it;
\* stale: the callback has read a field of it after it was freed.
NoTask == [frees |-> 0, stale |-> FALSE]

scsi_free_scsi_task(W) == [W EXCEPT !.task.frees = @ + 1]

\* the callback reads the status, the sense data or the payload of the task
task_read(W) == [W EXCEPT !.task.stale = @ \/ W.task.frees > 0]

complete_conn_req(W, r, bdev, status) ==
    [W EXCEPT !.q = SeqRemove(W.q, r),
              !.cb[r] = [count |-> @.count + 1, bdev |-> bdev, status |-> status],
              !.req[r].status = status]

_bdev_iscsi_is_size_change(status, ev) ==
    /\ status = SPDK_SCSI_STATUS_CHECK_CONDITION
    /\ ev.sk = SPDK_SCSI_SENSE_UNIT_ATTENTION
    /\ ev.ascq = ASCQ_CAPACITY_DATA_HAS_CHANGED

\* spdk_bdev_register: the framework refuses a device without a name
spdk_bdev_register(name, ev) ==
    IF name.null \/ strlen(name) = 0 THEN -EINVAL ELSE ev.regRc

\* create_iscsi_lun: [rc, lun]; lun is the device record when rc = 0
create_iscsi_lun(rq, ctx, num_blocks, block_size, lbppbe, ev, td) ==
    LET dev == [bdev |-> [name |-> rq.bdev_name,
                          blocklen |-> block_size,
                          phys_blocklen |-> block_size * (2 ^ lbppbe),
                          blockcnt |-> num_blocks,
                          max_unmap |-> IF rq.unmap_supported THEN rq.max_unmap ELSE 0,
                          max_unmap_segments |-> IF rq.unmap_supported
                                                 THEN BDEV_ISCSI_MAX_UNMAP_BLOCK_DESCS_COUNT
                                                 ELSE 0,
                          status |-> "READY"],
                io_device |-> "registered",
                context |-> ctx,
                lun_id |-> rq.lun,
                initiator_iqn |-> rq.initiator_iqn,
                mutex |-> NULL,
                ch_count |-> 0,
                main_td |-> NULL,
                no_main_ch_poller |-> TRUE,
                no_main_ch_poller_td |-> td,
                unmap_supported |-> rq.unmap_supported,
                max_unmap |-> IF rq.unmap_supported THEN rq.max_unmap ELSE 0,
                poller |-> NULL]
        rc == spdk_bdev_register(rq.bdev_name, ev)
    IN
    IF ~ev.lunAlloc THEN [rc |-> -ENOMEM, lun |-> dev]
    ELSE [rc |-> rc, lun |-> dev]

\* iscsi_readcapacity16_cb that retries the capacity query after any
\* non-good status
iscsi_readcapacity16_cb_retryall(W, r, ev) ==
    IF ev.status # SPDK_SCSI_STATUS_GOOD
    THEN IF ev.issue1
         THEN [W EXCEPT !.req[r].tasks = Append(@, "cap")]
         ELSE complete_conn_req(W, r, NULL, ev.status)
    ELSE IF ~ev.dataOk
    THEN complete_conn_req(W, r, NULL, -ENOMEM)
    ELSE LET res == create_iscsi_lun(W.req[r], r, ev.returned_lba + 1, ev.block_length,
                                     ev.lbppbe, ev, AppThread)
         IN IF res.rc # 0
            THEN complete_conn_req(W, r, NULL, res.rc)
            ELSE complete_conn_req([W EXCEPT !.luns = @ @@ (r :> res.lun)], r, r, res.rc)

\* The task is read (sense data, payload) and freed at ret:, or freed before
\* the retry is issued; when the retry cannot be allocated the code goes to
\* ret: and frees it a second time.
iscsi_readcapacity16_cb(W, r, ev) ==
    LET Wf == scsi_free_scsi_task(task_read(W)) IN
    IF ev.status # SPDK_SCSI_STATUS_GOOD
    THEN IF _bdev_iscsi_is_size_change(ev.status, ev)
         THEN IF ev.issue1
              THEN [Wf EXCEPT !.req[r].tasks = Append(@, "cap")]
              ELSE IF ev.dfree = "abort"
              THEN [scsi_free_scsi_task(Wf) EXCEPT !.fault = "SIGABRT"]
              ELSE complete_conn_req(scsi_free_scsi_task(Wf), r, NULL, ev.status)
         ELSE complete_conn_req(Wf, r, NULL, ev.status)
    ELSE IF ~ev.dataOk
    THEN complete_conn_req(Wf, r, NULL, -ENOMEM)
    ELSE LET res == create_iscsi_lun(W.req[r], r, ev.returned_lba + 1, ev.block_length,
                                     ev.lbppbe, ev, AppThread)
         IN IF res.rc # 0
            THEN complete_conn_req(Wf, r, NULL, res.rc)
            ELSE complete_conn_req([Wf EXCEPT !.luns = @ @@ (r :> res.lun)], r, r, res.rc)

\* bdev_iscsi_inquiry_bl_cb taking the reported value as it is
bdev_iscsi_inquiry_bl_cb_nodefault(W, r, ev) ==
    LET W1 == IF ev.status = SPDK_SCSI_STATUS_GOOD /\ ev.dataOk
              THEN [W EXCEPT !.req[r].max_unmap = ev.max_unmap]
              ELSE W
    IN IF ev.issue1
       THEN [W1 EXCEPT !.req[r].tasks = Append(@, "cap")]
       ELSE complete_conn_req(W1, r, NULL, ev.status)

bdev_iscsi_inquiry_bl_cb(W, r, ev) ==
    LET Wf == scsi_free_scsi_task(task_read(W))
        W1 == IF ev.status = SPDK_SCSI_STATUS_GOOD /\ ev.dataOk
              THEN [Wf EXCEPT !.req[r].max_unmap =
                        IF ev.max_unmap = 0 THEN BDEV_ISCSI_DEFAULT_MAX_UNMAP_LBA_COUNT
                        ELSE ev.max_unmap]
              ELSE Wf
    IN IF ev.issue1
       THEN [W1 EXCEPT !.req[r].tasks = Append(@, "cap")]
       ELSE complete_conn_req(W1, r, NULL, ev.status)

\* bdev_iscsi_inquiry_lbp_cb that does not look at the lbpu bit
bdev_iscsi_inquiry_lbp_cb_anybl(W, r, ev) ==
    LET lbpu == ev.status = SPDK_SCSI_STATUS_GOOD /\ ev.dataOk
        W1 == IF lbpu THEN [W EXCEPT !.req[r].unmap_supported = TRUE] ELSE W
        capIssued == IF lbpu THEN ev.issue2 ELSE ev.issue1
    IN IF lbpu /\ ev.issue1
       THEN [W1 EXCEPT !.req[r].tasks = Append(@, "bl")]
       ELSE IF capIssued
       THEN [W1 EXCEPT !.req[r].tasks = Append(@, "cap")]
       ELSE complete_conn_req(W1, r, NULL, ev.status)

\* bdev_iscsi_inquiry_lbp_cb without the return after the block-limits inquiry
\* was issued: the capacity query is issued as well
bdev_iscsi_inquiry_lbp_cb_noreturn(W, r, ev) ==
    LET lbpu == ev.status = SPDK_SCSI_STATUS_GOOD /\ ev.dataOk /\ ev.lbpu
        W1 == IF lbpu THEN [W EXCEPT !.req[r].unmap_supported = TRUE] ELSE W
        W2 == IF lbpu /\ ev.issue1 THEN [W1 EXCEPT !.req[r].tasks = Append(@, "bl")] ELSE W1
        capIssued == IF lbpu THEN ev.issue2 ELSE ev.issue1
    IN IF capIssued
       THEN [W2 EXCEPT !.req[r].tasks = Append(@, "cap")]
       ELSE complete_conn_req(W2, r, NULL, ev.status)

\* The task is freed when the status is not good, and when the page reports
\* lbpu; with a good status and no lbpu (or no page) it is not freed.
bdev_iscsi_inquiry_lbp_cb(W, r, ev) ==
    LET lbpu == ev.status = SPDK_SCSI_STATUS_GOOD /\ ev.dataOk /\ ev.lbpu
        Wf == IF ev.status # SPDK_SCSI_STATUS_GOOD THEN scsi_free_scsi_task(W)
              ELSE IF lbpu THEN scsi_free_scsi_task(task_read(W))
              ELSE task_read(W)
        W1 == IF lbpu THEN [Wf EXCEPT !.req[r].unmap_supported = TRUE] ELSE Wf
        \* the capacity query is the first task issued unless the block-limits
        \* inquiry was tried before it
        capIssued == IF lbpu THEN ev.issue2 ELSE ev.issue1
    IN IF lbpu /\ ev.issue1
       THEN [W1 EXCEPT !.req[r].tasks = Append(@, "bl")]
       ELSE IF capIssued
       THEN [W1 EXCEPT !.req[r].tasks = Append(@, "cap")]
       ELSE complete_conn_req(W1, r, NULL, ev.status)

iscsi_connect_cb(W, r, ev) ==
    IF ev.status # SPDK_SCSI_STATUS_GOOD
    THEN complete_conn_req(W, r, NULL, ev.status)
    ELSE IF ev.issue1
    THEN [W EXCEPT !.req[r].tasks = Append(@, "lbp")]
    ELSE complete_conn_req(W, r, NULL, ev.status)

\* what the target reported to request r so far; good: every step until now
\* completed with a good status, a payload, and could issue what it wanted
Report(rep, task, ev) ==
    LET ok == rep.good /\ ev.status = SPDK_SCSI_STATUS_GOOD /\ ev.dataOk
    IN CASE ~(ok /\ ev.issue1 /\ ev.lunAlloc) -> NotGood
         [] task = "lbp" -> [rep EXCEPT !.lbpu = ev.lbpu]
         [] task = "bl" -> [rep EXCEPT !.max_unmap = ev.max_unmap]
         [] task = "cap" -> [rep EXCEPT !.returned_lba = ev.returned_lba,
                                        !.block_length = ev.block_length]
         [] OTHER -> rep

\* The completion ev of the oldest outstanding task of the session of request
\* r is handed to the callback the task was issued with.
Complete(W, r, ev) ==
    LET task == Head(W.req[r].tasks)
        W0 == [W EXCEPT !.req[r].tasks = Tail(@),
                        !.reported[r] = Report(@, task, ev),
                        !.task = NoTask]
    IN CASE task = "connect" -> iscsi_connect_cb(W0, r, ev)
         [] task = "lbp" -> bdev_iscsi_inquiry_lbp_cb(W0, r, ev)
         [] task = "bl" -> bdev_iscsi_inquiry_bl_cb(W0, r, ev)
         [] task = "cap" -> iscsi_readcapacity16_cb(W0, r, ev)
         [] OTHER -> W

\* iscsi_service(context, revents): the worlds it can end in when the answers
\* to the n oldest outstanding tasks have arrived.  A task issued by a
\* callback is sent at the end of the call, so its answer comes in a later one.
RECURSIVE iscsi_service(_, _, _)
iscsi_service(W, r, n) ==
    IF n = 0 \/ W.req[r].tasks = <<>> \/ W.fault # "none" THEN {W}
    ELSE UNION { iscsi_service(Complete(W, r, ev), r, n - 1) :
                    ev \in EventsFor(Head(W.req[r].tasks)) }

\* ------------------------------------------------------------------------
\* The connection poller
\* ------------------------------------------------------------------------
_bdev_iscsi_conn_req_free(q, r) ==
    free([q EXCEPT ![r].strings = "freed",
                   ![r].context = IF @ = "live" THEN "destroyed" ELSE @], r)

\* A request that left the queue and was not freed: nothing points to it any
\* more.  The model keeps that its memory, strings and session are still
\* allocated, and its status; the other fields can no longer be read.
Leaked(q, r) ==
    [q EXCEPT ![r] = [NoReq EXCEPT !.called = TRUE, !.rc = q[r].rc, !.mem = q[r].mem,
                                   !.context = q[r].context,
                                   !.strings = q[r].strings,
                                   !.status = q[r].status]]

\* the end of one iteration of the loop: a terminal request is freed
Reap(W, r) ==
    IF W.fault # "none" THEN W
    ELSE IF W.req[r].status = 0
    THEN [W EXCEPT !.req = free(W.req, r), !.freed[r] = @ + 1]
    ELSE IF W.req[r].status > 0
    THEN [W EXCEPT !.req = _bdev_iscsi_conn_req_free(W.req, r), !.freed[r] = @ + 1]
    ELSE IF W.req[r].status # STATUS_IN_PROGRESS
    THEN [W EXCEPT !.req = Leaked(W.req, r)]
    ELSE W

\* What poll() and iscsi_service do in one visit of a request: "fail"
\* (poll() < 0), "none" (no event, or iscsi_service returns an error: nothing
\* is delivered), "ready" (iscsi_service delivers what has arrived).
PollResults == {"fail", "none", "ready"}

\* the worlds one run of TAILQ_FOREACH_SAFE over the requests ids can end in
RECURSIVE PollLoop(_, _)
PollLoop(W, ids) ==
    IF ids = <<>> \/ W.fault # "none" THEN {W}
    ELSE LET r == Head(ids) IN
         UNION { IF p = "fail" THEN {W}
                 ELSE UNION { PollLoop(Reap(W1, r), Tail(ids)) :
                                W1 \in IF p = "ready"
                                       THEN iscsi_service(W, r, Len(W.req[r].tasks))
                                       ELSE {W} }
                 : p \in PollResults }

World == [req |-> req, q |-> g_iscsi_conn_req, cb |-> cb, luns |-> luns,
          reported |-> reported, freed |-> freed, task |-> NoTask, fault |-> "none"]

\* a signal that kills the process stops every thread
iscsi_bdev_conn_poll ==
    /\ ProcessAlive
    /\ g_conn_poller
    /\ ~finished
    /\ IF g_iscsi_conn_req = <<>>
       THEN /\ g_conn_poller' = FALSE
            /\ UNCHANGED <<g_iscsi_conn_req, req, cb, luns, reported, freed, pc>>
       ELSE /\ \E W \in PollLoop(World, g_iscsi_conn_req) :
                 /\ req' = W.req
                 /\ g_iscsi_conn_req' = W.q
                 /\ cb' = W.cb
                 /\ luns' = W.luns
                 /\ reported' = W.reported
                 /\ freed' = W.freed
                 /\ pc' = IF W.fault = "none" THEN pc ELSE [t \in Threads |-> W.fault]
            /\ UNCHANGED g_conn_poller
    /\ UNCHANGED <<ncalls, finished>>
    /\ UNCHANGED <<lun, hasCh, msgs, ios, tasks>>

\* ------------------------------------------------------------------------
\* bdev_iscsi_finish: module_fini
\* ------------------------------------------------------------------------
RECURSIVE FreeAll(_, _)
FreeAll(q, ids) ==
    IF ids = <<>> THEN q
    ELSE FreeAll(_bdev_iscsi_conn_req_free(q, Head(ids)), Tail(ids))

bdev_iscsi_finish ==
    /\ ProcessAlive
    /\ ~finished
    /\ req' = FreeAll(req, g_iscsi_conn_req)
    /\ freed' = [r \in Calls |-> IF \E i \in DOMAIN g_iscsi_conn_req : g_iscsi_conn_req[i] = r
                                 THEN freed[r] + 1 ELSE freed[r]]
    /\ g_conn_poller' = FALSE
    /\ finished' = TRUE
    /\ UNCHANGED <<g_iscsi_conn_req, cb, luns, reported, ncalls>>
    /\ UNCHANGED lunVars

ConnNext ==
    \/ CreateDisk
    \/ iscsi_bdev_conn_poll
    \/ bdev_iscsi_finish

\* no device is registered while the requests are followed
InitConn == ConnInit /\ LunIdle

SpecConn == InitConn /\ [][ConnNext]_vars

\* ------------------------------------------------------------------------
\* Properties of device creation (SpecConn)
\* ------------------------------------------------------------------------
\* the calls create_iscsi_disk returned 0 for
Accepted == {r \in Calls : req[r].called /\ req[r].rc = 0}

\* the calls create_iscsi_disk returned an error for
Rejected == {r \in Calls : req[r].called /\ req[r].rc # 0}

Queued == {g_iscsi_conn_req[i] : i \in DOMAIN g_iscsi_conn_req}

\* C1: the creation callback of an accepted request is invoked at most once,
\* and once it has been invoked no poller tick or completion invokes it again.
C1_CallbackAtMostOnce ==
    /\ [](\A r \in Accepted : cb[r].count <= 1)
    /\ [][\A r \in Calls : cb[r].count >= 1 => cb'[r] = cb[r]]_vars

\* two accepted requests, one ended with a device and one without, each with
\* its callback invoked
C1_Witness ==
    \E r1, r2 \in Accepted :
        /\ cb[r1].count = 1 /\ cb[r1].bdev # NULL
        /\ cb[r2].count = 1 /\ cb[r2].bdev = NULL

\* C2: every accepted request has its creation callback invoked, also the
\* requests that are pending when the module is finished: once
\* bdev_iscsi_finish has run nothing runs any more, so by then the callback
\* of every accepted request has been invoked.
C2_AcceptedIsCalledBack ==
    finished => \A r \in Accepted : cb[r].count >= 1

\* C3: a create_iscsi_disk call that returns an error invokes no callback,
\* queues nothing, leaves the poller registration as it was and releases the
\* request, its strings and its session; the callback is never invoked for
\* it later either.
C3_RejectedLeavesNothing ==
    /\ [](\A r \in Rejected :
            /\ cb[r].count = 0
            /\ r \notin Queued
            /\ req[r].mem \in {"none", "freed"}
            /\ req[r].strings \in {"none", "freed"}
            /\ req[r].context \in {"none", "destroyed"})
    /\ [][ncalls' = ncalls + 1 /\ req'[ncalls'].rc # 0
            => /\ cb' = cb
               /\ g_iscsi_conn_req' = g_iscsi_conn_req
               /\ g_conn_poller' = g_conn_poller]_vars

\* a call was rejected after its session had been created, while another
\* request is pending and the poller registered
C3_Witness ==
    /\ \E r \in Rejected : req[r].mem = "freed" /\ req[r].context = "destroyed"
    /\ g_iscsi_conn_req # <<>>
    /\ g_conn_poller

\* C4: a call with an empty device name, URL or initiator name, or without a
\* callback, is rejected and queues nothing: every queued request has a
\* non-empty device name and initiator name and a callback (a queued request
\* has a URL that was parsed).
C4_EmptyArgumentRejected ==
    \A r \in Queued :
        /\ ~req[r].bdev_name.null /\ strlen(req[r].bdev_name) > 0
        /\ ~req[r].initiator_iqn.null /\ strlen(req[r].initiator_iqn) > 0
        /\ req[r].has_cb

\* C5: when discovery ends without a device, the callback gets a null
\* device and a nonzero status, and the session of the request is destroyed
\* when the request is freed.
C5_FailureReportedAndReleased ==
    \A r \in Accepted :
        cb[r].count >= 1 /\ cb[r].bdev = NULL
            => /\ cb[r].status # 0
               /\ req[r].mem = "freed" => req[r].context = "destroyed"

\* C6: when every step of discovery succeeds, the registered device has
\* blockcnt = last block + 1, blocklen = the block size, unmap_supported =
\* the provisioning flag and, with unmap supported, max_unmap = the
\* block-limits value, or the default when that value is zero.
C6_DeviceGeometry ==
    \A r \in DOMAIN luns :
        reported[r].good
            => /\ luns[r].bdev.blockcnt = reported[r].returned_lba + 1
               /\ luns[r].bdev.blocklen = reported[r].block_length
               /\ luns[r].unmap_supported = reported[r].lbpu
               /\ reported[r].lbpu
                    => /\ luns[r].max_unmap =
                            IF reported[r].max_unmap = 0
                            THEN BDEV_ISCSI_DEFAULT_MAX_UNMAP_LBA_COUNT
                            ELSE reported[r].max_unmap
                       /\ luns[r].bdev.max_unmap = luns[r].max_unmap

\* the scenario of the specification: 1,000,000 blocks of 512 bytes,
\* provisioning supported, 16384 blocks per unmap
C6_Witness ==
    \E r \in DOMAIN luns :
        /\ reported[r].good
        /\ luns[r].bdev.blockcnt = 1000000
        /\ luns[r].bdev.blocklen = 512
        /\ luns[r].unmap_supported
        /\ luns[r].max_unmap = 16384

\* a device registered after a block-limits page that reported zero
C6_WitnessDefault ==
    \E r \in DOMAIN luns :
        reported[r].good /\ reported[r].lbpu /\ reported[r].max_unmap = 0

\* ------------------------------------------------------------------------
\* One registered device (SpecLun)
\* ------------------------------------------------------------------------
\* the request whose discovery registered the device
LunReq ==
    [NoReq EXCEPT !.called = TRUE, !.mem = "live", !.context = "live",
                  !.strings = "live", !.bdev_name = Str(<<"d">>),
                  !.initiator_iqn = Str(<<"iqn.init">>), !.has_cb = TRUE,
                  !.unmap_supported = TRUE, !.max_unmap = 16384, !.lun = 1,
                  !.status = STATUS_IN_PROGRESS]

\* struct bdev_iscsi_io and the fields of the spdk_bdev_io it belongs to.
\* used: the request is in flight.  ch_td: the thread of the channel it was
\* submitted on.  submit_td: iscsi_io->submit_td.  done_td, done_status: the
\* thread the bdev layer's completion function was last called on for this
\* request, and the status it was given ("SCSI": the status and sense of the
\* command); they are kept until the request is submitted again.  retries: how
\* often bdev_iscsi_command_cb has resubmitted the request, counted up to
\* MaxRetries.
NoIo ==
    [used |-> FALSE, type |-> "NONE", offset_blocks |-> 0, num_blocks |-> 0, ch_td |-> NULL,
     submit_td |-> NULL, status |-> "NONE", scsi_status |-> 0,
     sk |-> 0, asc |-> 0, ascq |-> 0, done_td |-> NULL, done_status |-> "NONE",
          retries |-> 0]

ConnIdle == ConnInit

\* the requests discovery can end with: the block-limits page gave a limit,
\* the block-limits inquiry failed or could not be issued after the target
\* reported unmap support (max_unmap is still 0), the target reported no
\* unmap support
LunReqs ==
    {LunReq, [LunReq EXCEPT !.max_unmap = 0],
     [LunReq EXCEPT !.unmap_supported = FALSE, !.max_unmap = 0]}

LunInit ==
    /\ \E rq \in LunReqs : lun = create_iscsi_lun(rq, 1, 8, 4096, 3, Ready, AppThread).lun
    /\ pc = [t \in Threads |-> "idle"]
    /\ hasCh = [t \in Threads |-> FALSE]
    /\ msgs = [t \in Threads |-> <<>>]
    /\ ios = [i \in IoIds |-> NoIo]
    /\ tasks = <<>>

\* M is the part of the state the handlers of the device change:
\* M.lun, M.msgs, M.ios, M.tasks.
\* M.fault: the signal that kills the process during the handler, or "none".
\* M.task: the frees and reads of the scsi_task of the running callback.
Device == [lun |-> lun, msgs |-> msgs, ios |-> ios, tasks |-> tasks, fault |-> "none",
           task |-> NoTask]

spdk_thread_send_msg(M, td, fn, io) ==
    [M EXCEPT !.msgs[td] = Append(@, [fn |-> fn, io |-> io])]

\* ------------------------------------------------------------------------
\* Channel callbacks
\* ------------------------------------------------------------------------
\* bdev_iscsi_create_cb with main_td and the poller set on every open
bdev_iscsi_create_cb_always(l, t) ==
    [l EXCEPT !.main_td = t, !.poller = t, !.ch_count = @ + 1, !.mutex = NULL]

\* bdev_iscsi_create_cb on thread t, from the lock to the unlock
bdev_iscsi_create_cb(l, t) ==
    LET l1 == IF l.ch_count = 0 THEN [l EXCEPT !.main_td = t, !.poller = t] ELSE l
    IN [l1 EXCEPT !.ch_count = @ + 1, !.mutex = NULL]

\* bdev_iscsi_destroy_cb that clears owner and poller on whatever thread
\* releases the last channel
bdev_iscsi_destroy_cb_direct(M, t) ==
    LET n == M.lun.ch_count - 1 IN
    IF n = 0
    THEN [M EXCEPT !.lun.ch_count = n, !.lun.main_td = NULL, !.lun.poller = NULL,
                   !.lun.mutex = NULL]
    ELSE [M EXCEPT !.lun.ch_count = n, !.lun.mutex = NULL]

\* bdev_iscsi_destroy_cb that does not put the count back to 1 when it defers
\* the last release to the owner
bdev_iscsi_destroy_cb_norestore(M, t) ==
    LET n == M.lun.ch_count - 1 IN
    IF n = 0
    THEN IF M.lun.main_td # t
         THEN spdk_thread_send_msg([M EXCEPT !.lun.ch_count = n, !.lun.mutex = NULL],
                                   M.lun.main_td, "_iscsi_destroy_cb", 0)
         ELSE [M EXCEPT !.lun.ch_count = n, !.lun.main_td = NULL, !.lun.poller = NULL,
                        !.lun.mutex = NULL]
    ELSE [M EXCEPT !.lun.ch_count = n, !.lun.mutex = NULL]

\* bdev_iscsi_destroy_cb on thread t, from the lock to the unlock
bdev_iscsi_destroy_cb(M, t) ==
    LET n == M.lun.ch_count - 1 IN
    IF n = 0
    THEN IF M.lun.main_td # t
         THEN spdk_thread_send_msg([M EXCEPT !.lun.ch_count = n + 1, !.lun.mutex = NULL],
                                   M.lun.main_td, "_iscsi_destroy_cb", 0)
         ELSE [M EXCEPT !.lun.ch_count = n, !.lun.main_td = NULL, !.lun.poller = NULL,
                        !.lun.mutex = NULL]
    ELSE [M EXCEPT !.lun.ch_count = n, !.lun.mutex = NULL]

\* _iscsi_destroy_cb on thread t, from the lock to the unlock
_iscsi_destroy_cb(l, t) ==
    LET n == l.ch_count - 1 IN
    IF n > 0
    THEN [l EXCEPT !.ch_count = n, !.mutex = NULL]
    ELSE [l EXCEPT !.ch_count = n, !.main_td = NULL, !.poller = NULL, !.mutex = NULL]

\* the device record has not been freed: a callback can start on it.  A
\* callback that is under way when the record is freed goes on with what the
\* memory held, unless the process is killed (freed_lun_access).
Alive == lun.io_device # "freed"

\* the bdev layer opens channels and submits requests only while the bdev is
\* registered
Ready4Io == lun.bdev.status = "READY"

\* the requests submitted on the channel of thread t that are in flight
InFlight(t) == {i \in IoIds : ios[i].used /\ ios[i].ch_td = t}

\* spdk_get_io_channel on a thread without a channel: bdev_iscsi_create_cb
\* takes the mutex
create_cb_lock(t) ==
    /\ Alive
    /\ Ready4Io
    /\ pc[t] = "idle"
    /\ ~hasCh[t]
    /\ lun.mutex = NULL
    /\ lun' = [lun EXCEPT !.mutex = t]
    /\ pc' = [pc EXCEPT ![t] = "bdev_iscsi_create_cb"]
    /\ UNCHANGED <<hasCh, msgs, ios, tasks>>
    /\ UNCHANGED connVars

create_cb_unlock(t) ==
    /\ pc[t] = "bdev_iscsi_create_cb"
    /\ lun' = bdev_iscsi_create_cb(lun, t)
    /\ hasCh' = [hasCh EXCEPT ![t] = TRUE]
    /\ pc' = [pc EXCEPT ![t] = "idle"]
    /\ UNCHANGED <<msgs, ios, tasks>>
    /\ UNCHANGED connVars

\* spdk_put_io_channel of the channel of thread t, which has no request in
\* flight: bdev_iscsi_destroy_cb takes the mutex
destroy_cb_lock(t) ==
    /\ Alive
    /\ pc[t] = "idle"
    /\ hasCh[t]
    /\ InFlight(t) = {}
    /\ lun.mutex = NULL
    /\ lun' = [lun EXCEPT !.mutex = t]
    /\ pc' = [pc EXCEPT ![t] = "bdev_iscsi_destroy_cb"]
    /\ UNCHANGED <<hasCh, msgs, ios, tasks>>
    /\ UNCHANGED connVars

destroy_cb_unlock(t) ==
    /\ pc[t] = "bdev_iscsi_destroy_cb"
    /\ LET M == bdev_iscsi_destroy_cb(Device, t) IN
         /\ lun' = M.lun
         /\ msgs' = M.msgs
    /\ hasCh' = [hasCh EXCEPT ![t] = FALSE]
    /\ pc' = [pc EXCEPT ![t] = "idle"]
    /\ UNCHANGED <<ios, tasks>>
    /\ UNCHANGED connVars

\* the message _iscsi_destroy_cb is taken from the queue of thread t and takes
\* the mutex
msg_destroy_lock(t) ==
    /\ Alive
    /\ pc[t] = "idle"
    /\ msgs[t] # <<>>
    /\ Head(msgs[t]).fn = "_iscsi_destroy_cb"
    /\ lun.mutex = NULL
    /\ lun' = [lun EXCEPT !.mutex = t]
    /\ msgs' = [msgs EXCEPT ![t] = Tail(@)]
    /\ pc' = [pc EXCEPT ![t] = "_iscsi_destroy_cb"]
    /\ UNCHANGED <<hasCh, ios, tasks>>
    /\ UNCHANGED connVars

msg_destroy_unlock(t) ==
    /\ pc[t] = "_iscsi_destroy_cb"
    /\ lun' = _iscsi_destroy_cb(lun, t)
    /\ pc' = [pc EXCEPT ![t] = "idle"]
    /\ UNCHANGED <<hasCh, msgs, ios, tasks>>
    /\ UNCHANGED connVars

\* ------------------------------------------------------------------------
\* I/O on the device
\* ------------------------------------------------------------------------
\* the requests the bdev layer submits: type, u.bdev.offset_blocks and
\* u.bdev.num_blocks
IoArgs ==
    {[type |-> "READ", offset_blocks |-> 0, num_blocks |-> 8],
     [type |-> "WRITE", offset_blocks |-> 0, num_blocks |-> 8],
     [type |-> "FLUSH", offset_blocks |-> 0, num_blocks |-> 8],
     [type |-> "UNMAP", offset_blocks |-> 4, num_blocks |-> 8],
     [type |-> "UNMAP", offset_blocks |-> 4, num_blocks |-> 20000],
     [type |-> "RESET", offset_blocks |-> 0, num_blocks |-> 0],
     [type |-> "OTHER", offset_blocks |-> 0, num_blocks |-> 0]}

bdev_iscsi_io_type_supported(l, io_type) ==
    CASE io_type \in {"READ", "WRITE", "FLUSH", "RESET"} -> TRUE
      [] io_type = "UNMAP" -> l.unmap_supported
      [] OTHER -> FALSE

\* what the environment answers to one run of _bdev_iscsi_submit_request:
\* issue: libiscsi returns a task (or, for the reset, rc = 0);
\* buf: spdk_bdev_io_get_buf calls back with success;
\* div0: what a division by zero does on the machine: "trap" (SIGFPE),
\* "large" (a quotient above the descriptor limit), "small" (a quotient
\* within the limit)
SubOk == [issue |-> TRUE, buf |-> TRUE, div0 |-> "trap"]

Subs ==
    {SubOk, [SubOk EXCEPT !.issue = FALSE], [SubOk EXCEPT !.buf = FALSE],
     [SubOk EXCEPT !.div0 = "large"], [SubOk EXCEPT !.div0 = "small"]}

\* a command handed to libiscsi.  td: the thread that issued it; owner:
\* lun->main_td when it was issued; lun: the LUN number passed to libiscsi
IssueTask(M, kind, io, lun_id, td) ==
    [M EXCEPT !.tasks = Append(@, [kind |-> kind, io |-> io, lun |-> lun_id,
                                   td |-> td, owner |-> M.lun.main_td,
                                   list |-> <<>>])]

\* spdk_bdev_io_complete and spdk_bdev_io_complete_scsi_status, called on
\* thread td: the request goes back to the bdev layer
spdk_bdev_io_complete(M, io, status, td) ==
    [M EXCEPT !.ios[io] = [NoIo EXCEPT !.ch_td = M.ios[io].ch_td,
                                       !.done_td = td, !.done_status = status]]

_bdev_iscsi_io_complete(M, io, td) ==
    IF M.ios[io].status = "SUCCESS"
    THEN spdk_bdev_io_complete(M, io, "SCSI", td)
    ELSE spdk_bdev_io_complete(M, io, M.ios[io].status, td)

bdev_iscsi_io_complete(M, io, status, td) ==
    LET M1 == [M EXCEPT !.ios[io].status = status] IN
    IF M1.ios[io].submit_td # NULL
    THEN spdk_thread_send_msg(M1, M1.ios[io].submit_td, "_bdev_iscsi_io_complete", io)
    ELSE _bdev_iscsi_io_complete(M1, io, td)

bdev_iscsi_readcapacity16(M, td, issue) ==
    IF issue THEN IssueTask(M, "readcapacity16", 0, M.lun.lun_id, td) ELSE M

bdev_iscsi_readv(M, io, td, issue) ==
    IF issue THEN IssueTask(M, "read16", io, M.lun.lun_id, td)
    ELSE bdev_iscsi_io_complete(M, io, "FAILED", td)

bdev_iscsi_writev(M, io, td, issue) ==
    IF issue THEN IssueTask(M, "write16", io, M.lun.lun_id, td)
    ELSE bdev_iscsi_io_complete(M, io, "FAILED", td)

bdev_iscsi_flush(M, io, td, issue) ==
    IF issue THEN IssueTask(M, "synchronizecache16", io, M.lun.lun_id, td)
    ELSE bdev_iscsi_io_complete(M, io, "FAILED", td)

spdk_divide_round_up(num, divisor) == (num + divisor - 1) \div divisor

\* the do-while loop of bdev_iscsi_unmap: the descriptors it writes
RECURSIVE unmap_list(_, _, _)
unmap_list(offset, remaining, max_unmap) ==
    LET unmap_blocks == IF remaining < max_unmap THEN remaining ELSE max_unmap
        entry == [lba |-> offset, num |-> unmap_blocks]
    IN IF remaining - unmap_blocks > 0
       THEN <<entry>> \o unmap_list(offset + unmap_blocks, remaining - unmap_blocks,
                                    max_unmap)
       ELSE <<entry>>

\* iscsi_unmap_task with the descriptors list
unmap_task(M, io, td, list) ==
    LET M1 == IssueTask(M, "unmap", io, 0, td)
    IN [M1 EXCEPT !.tasks[Len(M1.tasks)].list = list]

\* With lun->max_unmap = 0 spdk_divide_round_up divides by zero: the process
\* gets SIGFPE, or the quotient is above the limit and the request fails, or
\* it is within the limit and the loop, which then never ends, writes past
\* list[] (the process is killed by the stack overrun).
bdev_iscsi_unmap(M, io, td, sub) ==
    IF M.lun.max_unmap = 0
    THEN CASE sub.div0 = "trap" -> [M EXCEPT !.fault = "SIGFPE"]
           [] sub.div0 = "small" -> [M EXCEPT !.fault = "SIGSEGV"]
           [] OTHER -> bdev_iscsi_io_complete(M, io, "FAILED", td)
    ELSE IF spdk_divide_round_up(M.ios[io].num_blocks, M.lun.max_unmap)
               > BDEV_ISCSI_MAX_UNMAP_BLOCK_DESCS_COUNT
    THEN bdev_iscsi_io_complete(M, io, "FAILED", td)
    ELSE IF sub.issue
    THEN unmap_task(M, io, td, unmap_list(M.ios[io].offset_blocks, M.ios[io].num_blocks,
                                          M.lun.max_unmap))
    ELSE bdev_iscsi_io_complete(M, io, "FAILED", td)

_bdev_iscsi_reset(M, io, td, issue) ==
    IF issue THEN IssueTask(M, "lun_reset", io, M.lun.lun_id, td)
    ELSE bdev_iscsi_io_complete(M, io, "FAILED", td)

bdev_iscsi_reset(M, io, td) ==
    spdk_thread_send_msg(M, M.lun.main_td, "_bdev_iscsi_reset", io)

\* spdk_bdev_io_get_buf calls bdev_iscsi_get_buf_cb on the calling thread
bdev_iscsi_get_buf_cb(M, io, td, success, issue) ==
    IF ~success THEN spdk_bdev_io_complete(M, io, "FAILED", td)
    ELSE bdev_iscsi_readv(M, io, td, issue)

_bdev_iscsi_submit_request(M, io, td, sub) ==
    CASE M.ios[io].type = "READ" -> bdev_iscsi_get_buf_cb(M, io, td, sub.buf, sub.issue)
      [] M.ios[io].type = "WRITE" -> bdev_iscsi_writev(M, io, td, sub.issue)
      [] M.ios[io].type = "FLUSH" -> bdev_iscsi_flush(M, io, td, sub.issue)
      [] M.ios[io].type = "RESET" -> bdev_iscsi_reset(M, io, td)
      [] M.ios[io].type = "UNMAP" -> bdev_iscsi_unmap(M, io, td, sub)
      [] OTHER -> bdev_iscsi_io_complete(M, io, "FAILED", td)

\* bdev_iscsi_submit_request that runs every request on the calling thread
bdev_iscsi_submit_request_inline(M, io, submit_td, sub) ==
    _bdev_iscsi_submit_request([M EXCEPT !.ios[io].submit_td = NULL], io, submit_td, sub)

\* bdev_iscsi_submit_request on the channel of thread submit_td
bdev_iscsi_submit_request(M, io, submit_td, sub) ==
    IF M.lun.main_td # submit_td
    THEN spdk_thread_send_msg([M EXCEPT !.ios[io].submit_td = submit_td],
                              M.lun.main_td, "_bdev_iscsi_submit_request", io)
    ELSE _bdev_iscsi_submit_request([M EXCEPT !.ios[io].submit_td = NULL],
                                    io, submit_td, sub)

\* ------------------------------------------------------------------------
\* Completions
\* ------------------------------------------------------------------------
Sense(sk, ascq) == [sk |-> sk, ascq |-> ascq]

NoSense == Sense(SPDK_SCSI_SENSE_NO_SENSE, 0)

CapacitySense == Sense(SPDK_SCSI_SENSE_UNIT_ATTENTION, ASCQ_CAPACITY_DATA_HAS_CHANGED)

ResetSense == Sense(SPDK_SCSI_SENSE_UNIT_ATTENTION, ASCQ_POWER_ON_RESET)

\* the completion of a read, write, flush or unmap.  sk, ascq: the sense data
\* of the task; after: what task->sense holds when it is read again after
\* scsi_free_scsi_task; issue1: libiscsi returns the readcapacity16 task;
\* sub: what the environment answers to the retry
CmdEv(status, sense, after, issue1, sub) ==
    [status |-> status, sk |-> sense.sk, ascq |-> sense.ascq, after |-> after,
     issue1 |-> issue1, sub |-> sub]

CommandEvents ==
    {CmdEv(SPDK_SCSI_STATUS_GOOD, NoSense, NoSense, TRUE, SubOk),
     CmdEv(SCSI_STATUS_ERROR, NoSense, NoSense, TRUE, SubOk),
     CmdEv(SPDK_SCSI_STATUS_CHECK_CONDITION, ResetSense, ResetSense, TRUE, SubOk),
     CmdEv(SPDK_SCSI_STATUS_CHECK_CONDITION, CapacitySense, NoSense, TRUE, SubOk)}
      \cup {CmdEv(SPDK_SCSI_STATUS_CHECK_CONDITION, s, CapacitySense, i, sub) :
               s \in {CapacitySense, ResetSense}, i \in BOOLEAN, sub \in Subs}

\* the response of a LUN reset
ResetEvents == {[tmf |-> "COMPLETE"], [tmf |-> "REJECTED"]}

\* the completion of the capacity refresh; notifyRc: what
\* spdk_bdev_notify_blockcnt_change returns
ReadcapEvents ==
    {[status |-> SCSI_STATUS_ERROR, dataOk |-> TRUE, returned_lba |-> 0, notifyRc |-> 0],
     [status |-> SPDK_SCSI_STATUS_GOOD, dataOk |-> FALSE, returned_lba |-> 0, notifyRc |-> 0],
     [status |-> SPDK_SCSI_STATUS_GOOD, dataOk |-> TRUE, returned_lba |-> 7, notifyRc |-> 0],
     [status |-> SPDK_SCSI_STATUS_GOOD, dataOk |-> TRUE, returned_lba |-> 15, notifyRc |-> 0],
     [status |-> SPDK_SCSI_STATUS_GOOD, dataOk |-> TRUE, returned_lba |-> 15,
      notifyRc |-> -ENOMEM]}

LunEventsFor(kind) ==
    CASE kind = "readcapacity16" -> ReadcapEvents
      [] kind = "lun_reset" -> ResetEvents
      [] OTHER -> CommandEvents

\* The sense data is copied, the task is freed, and the test for a capacity
\* change reads the sense data of the freed task when the status is CHECK
\* CONDITION.
bdev_iscsi_command_cb(M, task, ev, td) ==
    LET io == task.io
        M0 == [task_read(M) EXCEPT !.ios[io].scsi_status = ev.status,
                                   !.ios[io].sk = ev.sk % 256,
                                   !.ios[io].asc = (ev.ascq \div 256) % 256,
                                   !.ios[io].ascq = ev.ascq % 256]
        Mf == scsi_free_scsi_task(M0)
        M1 == IF ev.status = SPDK_SCSI_STATUS_CHECK_CONDITION THEN task_read(Mf) ELSE Mf
    IN IF _bdev_iscsi_is_size_change(ev.status, ev.after)
       THEN LET Mr == bdev_iscsi_readcapacity16(M1, td, ev.issue1)
                M2 == [Mr EXCEPT !.ios[io].retries = IF @ < MaxRetries THEN @ + 1 ELSE @]
            IN
            IF M2.ios[io].submit_td # NULL
            THEN spdk_thread_send_msg(M2, M2.lun.main_td, "_bdev_iscsi_submit_request", io)
            ELSE _bdev_iscsi_submit_request(M2, io, td, ev.sub)
       ELSE bdev_iscsi_io_complete(M1, io, "SUCCESS", td)

bdev_iscsi_resize_nocheck(l, new_size_in_block, notifyRc) ==
    IF notifyRc # 0 THEN [rc |-> notifyRc, lun |-> l]
    ELSE [rc |-> 0, lun |-> [l EXCEPT !.bdev.blockcnt = new_size_in_block]]

\* the result is the return code and the device
bdev_iscsi_resize(l, new_size_in_block, notifyRc) ==
    IF new_size_in_block <= l.bdev.blockcnt THEN [rc |-> -EINVAL, lun |-> l]
    ELSE IF notifyRc # 0 THEN [rc |-> notifyRc, lun |-> l]
    ELSE [rc |-> 0, lun |-> [l EXCEPT !.bdev.blockcnt = new_size_in_block]]

bdev_iscsi_readcapacity16_cb(M, task, ev, td) ==
    IF ev.status # SPDK_SCSI_STATUS_GOOD THEN scsi_free_scsi_task(M)
    ELSE IF ~ev.dataOk THEN scsi_free_scsi_task(task_read(M))
    ELSE [scsi_free_scsi_task(task_read(M)) EXCEPT
              !.lun = bdev_iscsi_resize(M.lun, ev.returned_lba + 1, ev.notifyRc).lun]

bdev_iscsi_reset_cb(M, task, ev, td) ==
    IF ev.tmf = "COMPLETE"
    THEN bdev_iscsi_io_complete(M, task.io, "SUCCESS", td)
    ELSE bdev_iscsi_io_complete(M, task.io, "FAILED", td)

\* libiscsi calls the callback of a completed task on the pumping thread td
LunComplete(M, task, ev, td) ==
    LET M0 == [M EXCEPT !.task = NoTask] IN
    CASE task.kind = "readcapacity16" -> bdev_iscsi_readcapacity16_cb(M0, task, ev, td)
      [] task.kind = "lun_reset" -> bdev_iscsi_reset_cb(M0, task, ev, td)
      [] OTHER -> bdev_iscsi_command_cb(M0, task, ev, td)

\* iscsi_service on the session of the device: the n oldest tasks complete;
\* a task issued by a callback is answered by a later call
RECURSIVE service_lun(_, _, _)
service_lun(M, n, td) ==
    IF n = 0 THEN {M}
    ELSE LET task == Head(M.tasks)
             M0 == [M EXCEPT !.tasks = Tail(@)]
         IN UNION { service_lun(LunComplete(M0, task, ev, td), n - 1, td) :
                       ev \in LunEventsFor(task.kind) }

\* bdev_iscsi_poll_lun on thread td: nothing is ready, or the session is pumped
bdev_iscsi_poll_lun(M, td) == {M} \cup service_lun(M, Len(M.tasks), td)

\* bdev_iscsi_no_main_ch_poll that pumps whenever it gets the mutex
bdev_iscsi_no_main_ch_poll_nocount(l, t) ==
    IF l.mutex # NULL THEN [lun |-> l, pumps |-> FALSE]
    ELSE [lun |-> [l EXCEPT !.mutex = t], pumps |-> TRUE]

\* bdev_iscsi_no_main_ch_poll on thread t up to the call of
\* bdev_iscsi_poll_lun: the device, and whether the session is pumped
bdev_iscsi_no_main_ch_poll(l, t) ==
    IF l.mutex # NULL THEN [lun |-> l, pumps |-> FALSE]
    ELSE IF l.ch_count = 0 THEN [lun |-> [l EXCEPT !.mutex = t], pumps |-> TRUE]
    ELSE [lun |-> l, pumps |-> FALSE]

\* ------------------------------------------------------------------------
\* Pollers, messages and submissions of the device
\* ------------------------------------------------------------------------
\* the bdev layer fills request i with a and hands it to the channel of t
Submitted(i, a, t) ==
    [Device EXCEPT !.ios[i] =
        [NoIo EXCEPT !.used = TRUE, !.type = a.type, !.offset_blocks = a.offset_blocks,
                     !.num_blocks = a.num_blocks, !.ch_td = t]]

Commit(M) ==
    /\ lun' = M.lun
    /\ msgs' = M.msgs
    /\ ios' = M.ios
    /\ tasks' = M.tasks

\* thread t returns from a handler that ended in M, or the process was killed
Return(M, t) ==
    /\ Commit(M)
    /\ pc' = IF M.fault = "none" THEN [pc EXCEPT ![t] = "idle"]
             ELSE [u \in Threads |-> M.fault]

\* the active poller starts a tick on the thread it is registered on
poll_lun_begin(t) ==
    /\ Alive
    /\ pc[t] = "idle"
    /\ lun.poller = t
    /\ pc' = [pc EXCEPT ![t] = "bdev_iscsi_poll_lun"]
    /\ UNCHANGED <<lun, hasCh, msgs, ios, tasks>>
    /\ UNCHANGED connVars

poll_lun_end(t) ==
    /\ pc[t] = "bdev_iscsi_poll_lun"
    /\ \E M \in bdev_iscsi_poll_lun(Device, t) : Return(M, t)
    /\ UNCHANGED hasCh
    /\ UNCHANGED connVars

\* the fallback poller ticks on the thread the device was created on
no_main_ch_poll_begin(t) ==
    /\ Alive
    /\ pc[t] = "idle"
    /\ lun.no_main_ch_poller
    /\ lun.no_main_ch_poller_td = t
    /\ LET res == bdev_iscsi_no_main_ch_poll(lun, t) IN
         /\ lun' = res.lun
         /\ pc' = [pc EXCEPT ![t] = IF res.pumps THEN "bdev_iscsi_no_main_ch_poll"
                                    ELSE "idle"]
    /\ UNCHANGED <<hasCh, msgs, ios, tasks>>
    /\ UNCHANGED connVars

no_main_ch_poll_end(t) ==
    /\ pc[t] = "bdev_iscsi_no_main_ch_poll"
    /\ \E M \in bdev_iscsi_poll_lun(Device, t) :
          Return([M EXCEPT !.lun.mutex = NULL], t)
    /\ UNCHANGED hasCh
    /\ UNCHANGED connVars

\* thread t is between two callbacks and the next message of its queue is fn
NextMsg(t, fn) ==
    /\ pc[t] = "idle"
    /\ msgs[t] # <<>>
    /\ Head(msgs[t]).fn = fn

Popped(t) == [Device EXCEPT !.msgs[t] = Tail(@)]

msg_submit_request(t) ==
    /\ Alive
    /\ NextMsg(t, "_bdev_iscsi_submit_request")
    /\ \E sub \in Subs :
          Return(_bdev_iscsi_submit_request(Popped(t), Head(msgs[t]).io, t, sub), t)
    /\ UNCHANGED hasCh
    /\ UNCHANGED connVars

msg_reset(t) ==
    /\ Alive
    /\ NextMsg(t, "_bdev_iscsi_reset")
    /\ \E issue \in BOOLEAN :
          Return(_bdev_iscsi_reset(Popped(t), Head(msgs[t]).io, t, issue), t)
    /\ UNCHANGED hasCh
    /\ UNCHANGED connVars

msg_io_complete(t) ==
    /\ Alive
    /\ NextMsg(t, "_bdev_iscsi_io_complete")
    /\ Return(_bdev_iscsi_io_complete(Popped(t), Head(msgs[t]).io, t), t)
    /\ UNCHANGED hasCh
    /\ UNCHANGED connVars

\* the bdev layer submits a request on the channel of thread t
submit_request(t) ==
    /\ Alive
    /\ Ready4Io
    /\ pc[t] = "idle"
    /\ hasCh[t]
    /\ \E i \in IoIds, a \in IoArgs, sub \in Subs :
          /\ ~ios[i].used
          /\ a.type = "UNMAP" => bdev_iscsi_io_type_supported(lun, a.type)
          /\ Return(bdev_iscsi_submit_request(Submitted(i, a, t), i, t, sub), t)
    /\ UNCHANGED hasCh
    /\ UNCHANGED connVars

\* ------------------------------------------------------------------------
\* Teardown of the device
\* ------------------------------------------------------------------------
\* bdev_iscsi_destruct, called by the bdev layer on thread t when the bdev is
\* unregistered and no request is outstanding; channels may still be
\* waiting for their release
bdev_iscsi_destruct(t) ==
    /\ Alive
    /\ Ready4Io
    /\ pc[t] = "idle"
    /\ \A u \in Threads : pc[u] # "bdev_iscsi_create_cb"
    /\ \A i \in IoIds : ~ios[i].used
    /\ Commit(spdk_thread_send_msg([Device EXCEPT !.lun.bdev.status = "REMOVING"],
                                   lun.no_main_ch_poller_td, "bdev_iscsi_destruct_cb", 0))
    /\ UNCHANGED <<pc, hasCh>>
    /\ UNCHANGED connVars

\* bdev_iscsi_destruct_cb: spdk_poller_unregister of the fallback poller and
\* spdk_io_device_unregister
bdev_iscsi_destruct_cb(l) ==
    [l EXCEPT !.no_main_ch_poller = FALSE, !.io_device = "unregistered"]

msg_destruct_cb(t) ==
    /\ Alive
    /\ NextMsg(t, "bdev_iscsi_destruct_cb")
    /\ Commit([Popped(t) EXCEPT !.lun = bdev_iscsi_destruct_cb(@)])
    /\ UNCHANGED <<pc, hasCh>>
    /\ UNCHANGED connVars

\* spdk_io_device_unregister(lun, _iscsi_free_lun): once every channel of the
\* unregistered device has been released (its bdev_iscsi_destroy_cb has
\* returned), _iscsi_free_lun is sent to the thread t that unregistered it
io_device_free(t) ==
    /\ lun.io_device = "unregistered"
    /\ t = lun.no_main_ch_poller_td
    /\ \A u \in Threads : ~hasCh[u]
    /\ Commit(spdk_thread_send_msg([Device EXCEPT !.lun.io_device = "freeing"],
                                   t, "_iscsi_free_lun", 0))
    /\ UNCHANGED <<pc, hasCh>>
    /\ UNCHANGED connVars

\* _iscsi_free_lun: iscsi_destroy_context, spdk_bdev_destruct_done, free(lun);
\* what is outstanding on the session goes with it.  The other fields of the
\* record keep what they held when it was freed.
_iscsi_free_lun(M) ==
    [M EXCEPT !.lun.context = NULL, !.lun.io_device = "freed",
              !.lun.bdev.status = "REMOVED", !.tasks = <<>>]

msg_free_lun(t) ==
    /\ Alive
    /\ NextMsg(t, "_iscsi_free_lun")
    /\ Commit(_iscsi_free_lun(Popped(t)))
    /\ UNCHANGED <<pc, hasCh>>
    /\ UNCHANGED connVars

\* A callback under way, a poller tick or a message of thread t that uses the
\* device after it was freed: the process is killed, or the message finds
\* the freed memory harmless and returns.
freed_lun_access(t) ==
    /\ lun.io_device = "freed"
    /\ pc[t] \notin {"SIGFPE", "SIGSEGV"}
    /\ pc[t] # "idle" \/ lun.poller = t \/ msgs[t] # <<>>
    /\ \/ pc' = [u \in Threads |-> "SIGSEGV"] /\ UNCHANGED msgs
       \/ /\ pc[t] = "idle"
          /\ msgs[t] # <<>>
          /\ msgs' = [msgs EXCEPT ![t] = Tail(@)]
          /\ UNCHANGED pc
    /\ UNCHANGED <<lun, hasCh, ios, tasks>>
    /\ UNCHANGED connVars

LunNext ==
    \E t \in Threads :
        \/ create_cb_lock(t)
        \/ create_cb_unlock(t)
        \/ destroy_cb_lock(t)
        \/ destroy_cb_unlock(t)
        \/ msg_destroy_lock(t)
        \/ msg_destroy_unlock(t)
        \/ poll_lun_begin(t)
        \/ poll_lun_end(t)
        \/ no_main_ch_poll_begin(t)
        \/ no_main_ch_poll_end(t)
        \/ msg_submit_request(t)
        \/ msg_reset(t)
        \/ msg_io_complete(t)
        \/ submit_request(t)
        \/ bdev_iscsi_destruct(t)
        \/ msg_destruct_cb(t)
        \/ io_device_free(t)
        \/ msg_free_lun(t)
        \/ freed_lun_access(t)

\* no connection request is made while the device is followed
InitLun == ConnIdle /\ LunInit

SpecLun == InitLun /\ [][LunNext]_vars

\* ------------------------------------------------------------------------
\* Properties of the device
\* ------------------------------------------------------------------------
\* thread t leaves the locked part of callback fn in this step
Leaves(t, fn) == pc[t] = fn /\ pc'[t] = "idle"

\* the message that defers the release of the last channel
DestroyMsg == [fn |-> "_iscsi_destroy_cb", io |-> 0]

\* the open that takes the count from 0 to 1 makes the opening thread the
\* owner and registers the active poller on it
FirstOpenSetsOwner ==
    \A t \in Threads :
        Leaves(t, "bdev_iscsi_create_cb") /\ lun.ch_count = 0
            => /\ lun'.ch_count = 1
               /\ lun'.main_td = t
               /\ lun'.poller = t

\* the release of the last channel on the owner clears owner and poller at
\* once; on another thread it clears nothing, leaves the count at 1 and sends
\* the deferred release to the owner
LastReleaseStep ==
    \A t \in Threads :
        Leaves(t, "bdev_iscsi_destroy_cb") /\ lun.ch_count = 1
            => IF lun.main_td = t
               THEN /\ lun'.ch_count = 0
                    /\ lun'.main_td = NULL
                    /\ lun'.poller = NULL
                    /\ msgs' = msgs
               ELSE /\ lun'.ch_count = 1
                    /\ lun'.main_td = lun.main_td
                    /\ lun'.poller = lun.poller
                    /\ msgs' = [msgs EXCEPT ![lun.main_td] = Append(@, DestroyMsg)]

\* the deferred release runs on the owner thread only
DeferredOnOwner ==
    \A t \in Threads :
        /\ pc[t] = "_iscsi_destroy_cb" => lun.main_td = t /\ lun.ch_count > 0
        /\ \A k \in 1..Len(msgs[t]) : msgs[t][k] = DestroyMsg => lun.main_td = t

C8_FurtherOpenKeepsOwner ==
    /\ [][\A t \in Threads :
             Leaves(t, "bdev_iscsi_create_cb") /\ lun.ch_count > 0
                 => /\ lun'.ch_count = lun.ch_count + 1
                    /\ lun'.main_td = lun.main_td
                    /\ lun'.poller = lun.poller]_vars
    /\ [][lun.ch_count > 0 /\ lun'.ch_count > 0
             => lun'.main_td = lun.main_td /\ lun'.poller = lun.poller]_vars

\* both threads hold a channel and the owner is the one that is not the
\* thread the device was created on
C8_Witness ==
    /\ \A t \in Threads : hasCh[t]
    /\ lun.ch_count = NumThreads
    /\ lun.main_td # NULL
    /\ lun.main_td # lun.no_main_ch_poller_td
    /\ lun.poller = lun.main_td

Pumping == {t \in Threads : pc[t] \in {"bdev_iscsi_poll_lun", "bdev_iscsi_no_main_ch_poll"}}

\* C9: at most one thread pumps the session of the device; the fallback
\* poller pumps only while it holds the mutex and the count is 0; the active
\* poller exists only while the count is above 0 and ticks on its own thread.
C9_OnePumper ==
    /\ Cardinality(Pumping) <= 1
    /\ \A t \in Threads :
          /\ pc[t] = "bdev_iscsi_no_main_ch_poll" => lun.mutex = t /\ lun.ch_count = 0
          /\ pc[t] = "bdev_iscsi_poll_lun" => lun.poller = t
    /\ lun.poller # NULL => lun.ch_count > 0

\* the fallback poller pumps the session with a command outstanding while
\* another thread waits to open a channel
C9_Witness ==
    \E t \in Threads :
        /\ pc[t] = "bdev_iscsi_no_main_ch_poll"
        /\ tasks # <<>>
        /\ \E u \in Threads : u # t /\ pc[u] = "idle" /\ ~hasCh[u]

\* C10: a request submitted on a thread that is not the owner is forwarded to
\* the owner by message and no command is issued for it in that step; every
\* command of the device was issued on the thread that owned the device then.
C10_IssuedOnOwner ==
    /\ [](\A k \in 1..Len(tasks) : tasks[k].td = tasks[k].owner /\ tasks[k].td # NULL)
    /\ [][\A i \in IoIds :
             ~ios[i].used /\ ios'[i].used /\ ios'[i].ch_td # lun.main_td
                 => /\ tasks' = tasks
                    /\ ios'[i].submit_td = ios'[i].ch_td
                    /\ msgs' = [msgs EXCEPT ![lun.main_td] =
                                   Append(@, [fn |-> "_bdev_iscsi_submit_request",
                                              io |-> i])]]_vars

\* the command of a request that was forwarded is outstanding, issued by the owner
C10_Witness ==
    \E k \in 1..Len(tasks) :
        /\ tasks[k].io # 0
        /\ ios[tasks[k].io].submit_td # NULL
        /\ ios[tasks[k].io].submit_td # tasks[k].td
        /\ tasks[k].td = lun.main_td

\* C11: the completion function of a request is called on the thread the
\* request was submitted on, whichever way the request ends; for a request
\* submitted on a thread that is not the owner the result goes back by message.
C11_CompletedOnSubmitThread ==
    \A i \in IoIds :
        ~ios[i].used /\ ios[i].done_td # NULL => ios[i].done_td = ios[i].ch_td

UnmapArgs == {a \in IoArgs : a.type = "UNMAP"}

\* the descriptors of list cover exactly [lba, lba + n), none longer than max
Covers(list, lba, n, max) ==
    /\ Len(list) >= 1
    /\ list[1].lba = lba
    /\ \A k \in 1..(Len(list) - 1) : list[k + 1].lba = list[k].lba + list[k].num
    /\ list[Len(list)].lba + list[Len(list)].num = lba + n
    /\ \A k \in 1..Len(list) : list[k].num <= max

\* what bdev_iscsi_unmap does with request a on the owner thread, when the
\* command can be allocated: no fault; a range longer than max_unmap is
\* failed with no command issued, any other range gives one unmap command
\* whose descriptors cover it
UnmapOutcomeOk(i, a, sub) ==
    LET M2 == bdev_iscsi_unmap(Submitted(i, a, lun.main_td), i, lun.main_td, sub)
        new == SubSeq(M2.tasks, Len(tasks) + 1, Len(M2.tasks))
    IN /\ M2.fault = "none"
       /\ IF a.num_blocks > lun.max_unmap
          THEN /\ new = <<>>
               /\ ~M2.ios[i].used
               /\ M2.ios[i].done_status = "FAILED"
          ELSE /\ Len(new) = 1
               /\ new[1].kind = "unmap"
               /\ M2.ios[i].used
               /\ Covers(new[1].list, a.offset_blocks, a.num_blocks, lun.max_unmap)

\* C12: an unmap request whose range needs more than one descriptor is failed
\* and no command is issued; any other unmap request issues exactly one unmap
\* command whose descriptors cover exactly its range, none longer than
\* max_unmap.
C12_UnmapOneCommandOrFail ==
    \A i \in IoIds, a \in UnmapArgs, sub \in {s \in Subs : s.issue} :
        ~ios[i].used /\ lun.main_td # NULL /\ lun.unmap_supported
            => UnmapOutcomeOk(i, a, sub)

\* the same for devices whose max_unmap is not zero
C12_UnmapWithLimit ==
    \A i \in IoIds, a \in UnmapArgs, sub \in {s \in Subs : s.issue} :
        ~ios[i].used /\ lun.main_td # NULL /\ lun.unmap_supported /\ lun.max_unmap # 0
            => UnmapOutcomeOk(i, a, sub)

\* an unmap command is outstanding
C12_Witness ==
    \E k \in 1..Len(tasks) : tasks[k].kind = "unmap" /\ tasks[k].list = <<[lba |-> 4, num |-> 8]>>

\* a capacity query of the device answered with ev, on its owner thread:
\* the resize attempt with returned_lba + 1 follows the rule
ResizeRule(ev) ==
    LET new == ev.returned_lba + 1
        cur == lun.bdev.blockcnt
        task == [kind |-> "readcapacity16", io |-> NULL, lun |-> lun.lun_id,
                 td |-> lun.main_td, owner |-> lun.main_td, list |-> <<>>]
        M2 == bdev_iscsi_readcapacity16_cb(Device, task, ev, lun.main_td)
        r == bdev_iscsi_resize(lun, new, ev.notifyRc)
    IN /\ M2.lun = r.lun
       /\ new <= cur => r.rc = -EINVAL /\ r.lun = lun
       /\ new > cur /\ ev.notifyRc = 0 => r.rc = 0 /\ r.lun.bdev.blockcnt = new

ResizeAttempts ==
    {ev \in ReadcapEvents : ev.status = SPDK_SCSI_STATUS_GOOD /\ ev.dataOk}

\* C13: a resize attempt with a block count less than or equal to the current
\* one is rejected and leaves the block count unchanged, a larger one (that
\* the bdev layer accepts) is applied; the block count of the device never
\* decreases, and it changes only to a larger count a capacity query returned.
C13_BlockcntNeverDecreases ==
    /\ [](\A ev \in ResizeAttempts : ResizeRule(ev))
    /\ [][/\ lun'.bdev.blockcnt >= lun.bdev.blockcnt
          /\ lun'.bdev.blockcnt # lun.bdev.blockcnt =>
                \E ev \in ResizeAttempts : lun'.bdev.blockcnt = ev.returned_lba + 1]_vars

\* a capacity refresh has grown the device from 8 to 16 blocks
C13_Witness ==
    lun.bdev.blockcnt = 16

\* C14: every registered device record that supports unmap has a nonzero
\* max_unmap, whatever happened to the block-limits inquiry.
C14_UnmapHasLimit ==
    \A r \in DOMAIN luns : luns[r].unmap_supported => luns[r].max_unmap # 0

\* the unmap support of a device record does not change after its creation
C14_UnmapSupportFixed ==
    [][\A r \in DOMAIN luns \cap DOMAIN luns' :
          luns'[r].unmap_supported = luns[r].unmap_supported]_vars

\* nor while the device is used
C14_UnmapSupportFixedInUse ==
    [][lun'.unmap_supported = lun.unmap_supported]_vars
CommandKinds == {"read16", "write16", "synchronizecache16", "unmap"}

\* how often message m is in queue q
Count(q, m) == Cardinality({k \in 1..Len(q) : q[k] = m})

\* the tasks of kinds K that M2 has issued beyond those of M0
Issued(M0, M2, K) ==
    {k \in (Len(M0.tasks) + 1)..Len(M2.tasks) : M2.tasks[k].kind \in K}

\* the target's answer carries the capacity-change condition
CapacityChanged(ev) ==
    /\ ev.status = SPDK_SCSI_STATUS_CHECK_CONDITION
    /\ ev.sk = SPDK_SCSI_SENSE_UNIT_ATTENTION
    /\ ev.ascq = ASCQ_CAPACITY_DATA_HAS_CHANGED

\* the oldest outstanding command completes with ev on the owner thread:
\* on the capacity-change condition one capacity query is issued, the request
\* is resubmitted once on the owner (run at once, or sent to it by message)
\* and stays with the driver; on any other answer it goes back to the caller
\* once (at once, or by message to the submitting thread), with no new command
RetryRule(ev) ==
    LET task == Head(tasks)
        io == task.io
        td == lun.main_td
        M0 == [Device EXCEPT !.tasks = Tail(@)]
        M2 == LunComplete(M0, task, ev, td)
        resubmit == [fn |-> "_bdev_iscsi_submit_request", io |-> io]
        done == [fn |-> "_bdev_iscsi_io_complete", io |-> io]
        fwd == ios[io].submit_td # NULL
        sent(m) == \A t \in Threads : Count(M2.msgs[t], m) = Count(msgs[t], m)
    IN IF CapacityChanged(ev)
       THEN /\ Cardinality(Issued(M0, M2, {"readcapacity16"})) = 1
            /\ M2.ios[io].used
            /\ M2.ios[io].done_td = ios[io].done_td
            /\ sent(done)
            /\ IF fwd
               THEN /\ Count(M2.msgs[td], resubmit) = Count(msgs[td], resubmit) + 1
                    /\ Issued(M0, M2, CommandKinds) = {}
               ELSE /\ Cardinality(Issued(M0, M2, CommandKinds)) = 1
                    /\ \A k \in Issued(M0, M2, CommandKinds) :
                          M2.tasks[k].io = io /\ M2.tasks[k].td = td
                    /\ sent(resubmit)
       ELSE /\ M2.tasks = M0.tasks
            /\ sent(resubmit)
            /\ IF fwd
               THEN /\ M2.ios[io].used
                    /\ Count(M2.msgs[ios[io].submit_td], done)
                          = Count(msgs[ios[io].submit_td], done) + 1
               ELSE /\ ~M2.ios[io].used
                    /\ M2.ios[io].done_td = td
                    /\ sent(done)

CommandPending ==
    tasks # <<>> /\ Head(tasks).kind \in CommandKinds /\ lun.main_td # NULL

\* C15: each time a read, write, flush or unmap command completes with the
\* capacity-change condition, exactly one capacity query is issued, the
\* request is resubmitted exactly once on the owner thread and nothing is
\* reported to the caller; on any other status the request is completed to
\* the caller exactly once and not resubmitted.
C15_RetryOncePerOccurrence ==
    CommandPending => \A ev \in {e \in CommandEvents : e.sub = SubOk} : RetryRule(ev)

\* the same when the sense data is still what the target sent after the task
\* was freed, and libiscsi returns the capacity query
C15_RetryWhenSenseIntact ==
    CommandPending =>
        \A ev \in {e \in CommandEvents : e.sub = SubOk} :
            ev.after = Sense(ev.sk, ev.ascq) /\ ev.issue1 => RetryRule(ev)

\* C16: the capacity-change retry does not loop: a request is resubmitted a
\* bounded number of times, whatever the target answers to the resubmitted
\* command (here: fewer than MaxRetries times).
C16_RetriesBounded ==
    \A i \in IoIds : ios[i].retries < MaxRetries

\* the requests whose discovery is under way, with an operation outstanding
Discovering ==
    {r \in Calls : (\E k \in DOMAIN g_iscsi_conn_req : g_iscsi_conn_req[k] = r)
                     /\ req[r].tasks # <<>>}

\* the answer ev is good and carries its payload
GoodAnswer(ev) == ev.status = SPDK_SCSI_STATUS_GOOD /\ ev.dataOk

\* the operations that may follow an operation of the discovery
NextOps(task) ==
    CASE task = "connect" -> {<<>>, <<"lbp">>}
      [] task = "lbp" -> {<<>>, <<"bl">>, <<"cap">>}
      [] task = "bl" -> {<<>>, <<"cap">>}
      [] OTHER -> {<<>>, <<"cap">>}

\* the outstanding operation of request r completes with ev
DiscoveryOrder(r, ev) ==
    LET task == Head(req[r].tasks)
        W2 == Complete(World, r, ev)
        new == W2.req[r].tasks
    IN /\ new \in NextOps(task)
       /\ new = <<"bl">> => task = "lbp" /\ GoodAnswer(ev) /\ ev.lbpu
       /\ task = "lbp" /\ ~(GoodAnswer(ev) /\ ev.lbpu) /\ ev.issue1
             => new = <<"cap">> /\ ~W2.req[r].unmap_supported
       /\ r \in DOMAIN W2.luns /\ r \notin DOMAIN luns
             => task = "cap" /\ GoodAnswer(ev)
       /\ \A o \in DOMAIN W2.luns : o # r => o \in DOMAIN luns

\* C18: the operations of a discovery are issued one at a time in the order
\* connect, provisioning inquiry, optional block-limits inquiry, capacity
\* query; the block-limits inquiry only after a good provisioning inquiry
\* that reports unmap support; when the provisioning inquiry fails or reports
\* no unmap support the capacity query is next, with unmap disabled; a device
\* is registered only by a good capacity query.
C18_DiscoveryOrder ==
    /\ \A r \in Calls : Len(req[r].tasks) <= 1
    /\ \A r \in Discovering : \A ev \in EventsFor(Head(req[r].tasks)) : DiscoveryOrder(r, ev)

\* the block-limits inquiry of a request is outstanding, and a device was
\* registered for another one
C18_Witness ==
    /\ \E r \in Discovering : req[r].tasks = <<"bl">> /\ req[r].unmap_supported
    /\ luns # <<>>

\* the callback of task, answered with ev, cannot allocate the first
\* operation it tries to issue
CannotIssue(task, ev) ==
    CASE task = "connect" -> ev.status = SPDK_SCSI_STATUS_GOOD /\ ~ev.issue1
      [] task \in {"lbp", "bl"} -> ~ev.issue1
      [] OTHER -> _bdev_iscsi_is_size_change(ev.status, ev) /\ ~ev.issue1

\* request r is made terminal with a failure status by the answer ev:
\* it leaves the queue, nothing is outstanding for it, and its callback is
\* called once more with no device and a nonzero status
FailsNow(r, ev) ==
    LET W2 == Complete(World, r, ev)
    IN /\ W2.req[r].tasks = <<>>
       /\ \A k \in DOMAIN W2.q : W2.q[k] # r
       /\ W2.cb[r].count = cb[r].count + 1
       /\ W2.cb[r].bdev = NULL
       /\ W2.cb[r].status # 0
       /\ W2.req[r].status # 0
       /\ W2.luns = luns

\* C19: a step of the discovery that cannot issue its next operation fails
\* the whole sequence at once: the request becomes terminal with a failure
\* status and nothing further is issued for it.
C19_IssueFailureFailsSequence ==
    \A r \in Discovering :
        \A ev \in EventsFor(Head(req[r].tasks)) :
            CannotIssue(Head(req[r].tasks), ev) => FailsNow(r, ev)

\* the same for the steps whose own answer was not good, where the callback
\* returns
C19_IssueFailureAfterBadAnswer ==
    \A r \in Discovering :
        \A ev \in EventsFor(Head(req[r].tasks)) :
            /\ CannotIssue(Head(req[r].tasks), ev)
            /\ ev.status # SPDK_SCSI_STATUS_GOOD
            /\ Complete(World, r, ev).fault = "none"
            => FailsNow(r, ev)

\* the requests whose capacity query is outstanding
QueryingCapacity == {r \in Discovering : Head(req[r].tasks) = "cap"}

\* the answer ev to the capacity query of r ends the discovery as failed:
\* the callback gets no device and the reported status, nothing is issued
Aborts(r, ev) ==
    LET W2 == Complete(World, r, ev)
    IN /\ W2.req[r].tasks = <<>>
       /\ \A k \in DOMAIN W2.q : W2.q[k] # r
       /\ W2.cb[r] = [count |-> cb[r].count + 1, bdev |-> NULL, status |-> ev.status]
       /\ W2.req[r].status = ev.status
       /\ W2.luns = luns

\* the answer ev makes r issue one more capacity query and stay in progress
QueriesAgain(r, ev) ==
    LET W2 == Complete(World, r, ev)
    IN /\ W2.req[r].tasks = <<"cap">>
       /\ \E k \in DOMAIN W2.q : W2.q[k] = r
       /\ W2.cb = cb
       /\ W2.req[r].status = STATUS_IN_PROGRESS
       /\ W2.luns = luns

FallbackStoppedByMessage ==
    lun.no_main_ch_poller /\ ~lun'.no_main_ch_poller
        => LET t == lun.no_main_ch_poller_td
           IN /\ NextMsg(t, "bdev_iscsi_destruct_cb")
              /\ msgs'[t] = Tail(msgs[t])

\* the session and the record are released in this step
Released == lun.io_device # "freed" /\ lun'.io_device = "freed"

\* C17 (first half): the fallback poller is unregistered on the creating
\* thread by a message, and the session and the record are released only
\* after that.
C17_FallbackStoppedBeforeRelease ==
    /\ [][FallbackStoppedByMessage]_vars
    /\ [][Released => ~lun.no_main_ch_poller /\ lun.context # NULL /\ lun'.context = NULL]_vars
    /\ [](lun.context = NULL <=> lun.io_device = "freed")

\* C17: on a destroy request the fallback poller is unregistered on the
\* creating thread by a message and only afterwards the session and the
\* record are released; they are released only when no channel remains: the
\* channel count is 0 and the device has no owner thread.
C17_ReleasedAfterLastChannel ==
    /\ C17_FallbackStoppedBeforeRelease
    /\ [][Released => lun.ch_count = 0 /\ lun.main_td = NULL]_vars

\* no completion callback frees the request it is called for: the request
\* is still allocated when iscsi_service returns
NotFreedInCallback ==
    \A r \in Discovering : \A ev \in EventsFor(Head(req[r].tasks)) :
        LET W2 == Complete(World, r, ev)
        IN W2.freed = freed /\ W2.req[r].mem = req[r].mem /\ req[r].mem = "live"

\* request r became terminal in this step: its callback was called
BecameTerminal(r) == cb'[r].count > cb[r].count

\* the connection poller frees only requests that became terminal in the
\* same tick, and no request is freed twice
PollerFreesTerminalOnly ==
    \A r \in Calls :
        /\ freed'[r] \in {freed[r], freed[r] + 1}
        /\ freed'[r] > freed[r] /\ ~finished' => BecameTerminal(r)

\* C21: a request is not freed while iscsi_service for its session is on the
\* stack; every request that becomes terminal, with whatever status, is
\* freed exactly once by the connection poller in the tick in which it
\* became terminal; a request in progress is never freed by the poller.
C21_TerminalFreedInTick ==
    /\ [](NotFreedInCallback /\ \A r \in Calls : freed[r] <= 1)
    /\ [][PollerFreesTerminalOnly]_vars
    /\ [][\A r \in Calls : BecameTerminal(r) => freed'[r] = freed[r] + 1]_vars

\* the same for the requests that end with status 0 or a positive status
C21_NonNegativeFreedInTick ==
    /\ [](NotFreedInCallback /\ \A r \in Calls : freed[r] <= 1)
    /\ [][PollerFreesTerminalOnly]_vars
    /\ [][\A r \in Calls : BecameTerminal(r) /\ cb'[r].status >= 0
             => freed'[r] = freed[r] + 1]_vars

\* the poller unregisters itself only at a tick that finds the queue empty,
\* and an accepted create leaves it registered
PollerLifecycle ==
    /\ g_conn_poller /\ ~g_conn_poller' /\ ~finished' => g_iscsi_conn_req = <<>>
    /\ Len(g_iscsi_conn_req') > Len(g_iscsi_conn_req) => g_conn_poller'

\* C22: whenever the queue of pending connection requests is not empty the
\* connection poller is registered; the poller unregisters itself at a tick
\* that finds the queue empty and the next accepted create registers it again.
C22_QueuedHasPoller ==
    /\ [](g_iscsi_conn_req # <<>> => g_conn_poller)
    /\ [][PollerLifecycle]_vars

\* the same until bdev_iscsi_finish has run
C22_QueuedHasPollerUntilFinish ==
    /\ [](~finished /\ g_iscsi_conn_req # <<>> => g_conn_poller)
    /\ [][PollerLifecycle]_vars

\* the assert of the callback thread t is in holds: it has the mutex and is
\* about to run the body
AssertsHold(t) ==
    /\ pc[t] = "bdev_iscsi_create_cb" /\ lun.ch_count = 0 => lun.main_td = NULL
    /\ pc[t] = "bdev_iscsi_destroy_cb" /\ lun.ch_count - 1 = 0 => lun.main_td # NULL
    /\ pc[t] = "_iscsi_destroy_cb" => lun.main_td = t /\ lun.ch_count > 0

\* C23: whenever the mutex of the device is not held, the channel count is
\* above 0 exactly when an owner thread is set and exactly when the active
\* poller is registered; and the assertions of the channel callbacks hold
\* under every interleaving of opens and releases: no owner at a 0-to-1
\* open, an owner at the last release, the deferred release on the owner
\* thread with a count above 0.
C23_OwnershipBookkeeping ==
    /\ lun.mutex = NULL
          => /\ lun.ch_count > 0 <=> lun.main_td # NULL
             /\ lun.main_td # NULL <=> lun.poller # NULL
    /\ lun.ch_count >= 0
    /\ \A t \in Threads : AssertsHold(t)

\* a thread opens a channel while the deferred release is pending on the owner
C23_Witness ==
    \E t \in Threads :
        /\ pc[t] = "bdev_iscsi_create_cb"
        /\ lun.main_td # NULL
        /\ lun.main_td # t
        /\ lun.ch_count = 1
        /\ \A u \in Threads : ~hasCh[u]
        /\ msgs[lun.main_td] # <<>>
        /\ Head(msgs[lun.main_td]) = DestroyMsg

\* the deferred release of the device is waiting in a queue or running
ReleasePending ==
    \E t \in Threads :
        \/ pc[t] = "_iscsi_destroy_cb"
        \/ \E k \in 1..Len(msgs[t]) : msgs[t][k] = DestroyMsg

\* C24: when the device record is freed, no deferred release message that
\* refers to it is pending and its active poller is not registered any more.
C24_NothingPendingWhenFreed ==
    [][Released => ~ReleasePending /\ lun.poller = NULL]_vars

\* the callback that returned in W2 freed the task it was given once and read
\* nothing of it afterwards
FreedOnce(W2) == W2.task.frees = 1 /\ ~W2.task.stale

\* the answers ev to the scsi tasks of the discovery of r (the connect has
\* no scsi task) after which P holds
DiscoveryTasks(P(_, _)) ==
    \A r \in Discovering :
        LET task == Head(req[r].tasks) IN
        task \in {"lbp", "bl", "cap"} =>
            \A ev \in EventsFor(task) : P(task, ev) => FreedOnce(Complete(World, r, ev))

\* the same for the oldest outstanding scsi task of the device (a LUN reset
\* is answered with a response code, not with a scsi task)
DeviceTasks(P(_, _)) ==
    tasks # <<>> /\ lun.main_td # NULL /\ Head(tasks).kind # "lun_reset" =>
        LET task == Head(tasks)
            M0 == [Device EXCEPT !.tasks = Tail(@)]
        IN \A ev \in LunEventsFor(task.kind) :
               P(task.kind, ev) => FreedOnce(LunComplete(M0, task, ev, lun.main_td))

AnyAnswer(task, ev) == TRUE

\* the answers on which the callbacks free their task once and do not read it
\* again
FreedOncePaths(task, ev) ==
    CASE task = "lbp" -> ev.status # SPDK_SCSI_STATUS_GOOD \/ (ev.dataOk /\ ev.lbpu)
      [] task = "bl" -> TRUE
      [] task = "cap" -> ~(_bdev_iscsi_is_size_change(ev.status, ev) /\ ~ev.issue1)
      [] task = "readcapacity16" -> TRUE
      [] OTHER -> ev.status # SPDK_SCSI_STATUS_CHECK_CONDITION

\* C25: every scsi task delivered to a completion callback (the inquiry and
\* capacity callbacks of the discovery, the command callback, the
\* capacity-refresh callback) is freed exactly once on every path through the
\* callback, and no field of it is read after it was freed.
C25_TaskFreedOnce == DiscoveryTasks(AnyAnswer) /\ DeviceTasks(AnyAnswer)

\* the same on the paths named by FreedOncePaths
C25_TaskFreedOnceOnPaths == DiscoveryTasks(FreedOncePaths) /\ DeviceTasks(FreedOncePaths)

\* the outstanding commands of kinds K are addressed to the LUN of the device
AddressedToLun(K) ==
    \A k \in 1..Len(tasks) : tasks[k].kind \in K => tasks[k].lun = lun.lun_id

\* C26: every command issued for a device (read, write, flush, unmap, reset,
\* capacity refresh) is addressed to the LUN index stored in the device
\* record, whatever LUN index the URL of the device selected.
C26_CommandsAddressLun ==
    AddressedToLun({"read16", "write16", "synchronizecache16", "unmap", "lun_reset",
                    "readcapacity16"})

\* the same for every command but unmap
C26_CommandsButUnmapAddressLun ==
    AddressedToLun({"read16", "write16", "synchronizecache16", "lun_reset", "readcapacity16"})
====
